---- MODULE Spec2Model ----
(***************************************************************************)
(* Model of ConsumerProducerTask.cpp: thread_number producer threads draw  *)
(* numbers from one shared TRandomizer and push them into a TIntegerQueue; *)
(* thread_number consumer threads pop them and hand them to                *)
(* TStorage::ProcessNext, which records the first arrival of every value   *)
(* in 1..StorageSize and requests stop once all of them are recorded.      *)
(*                                                                         *)
(* std::condition_variable_any::wait(lock, stoken, pred) is modelled by    *)
(* its specified behaviour                                                 *)
(*     while (!stoken.stop_requested()) {                                  *)
(*         if (pred()) return true;                                        *)
(*         wait(lock);                                                     *)
(*     }                                                                   *)
(*     return pred();                                                      *)
(* where a stop request wakes every thread blocked in such a wait.         *)
(***************************************************************************)
EXTENDS Integers, Sequences, FiniteSets, Bags, TLC

\* ------------------------------------------------------------- bounds ---
\* capacity of the queue (1000 in the program, scaled down)
MaxQueueSize == 1
\* number of producer threads and of consumer threads (3 in the program)
thread_number == 2
\* element_number, the size of the storage (argv[1] of the program)
StorageSize == 2
\* number of SaveIntoQueue calls that the history variables follow
MaxDraws == 4
\* the most periods of high_resolution_clock between two readings of it
MaxTick == 2
\* periods of high_resolution_clock in a microsecond (scaled down)
TicksPerMicro == 2
\* calls of ProcessNext followed where ProcessNext is driven on its own
MaxFeeds == 4

\* Queue.size() is a size_t; the model keeps 16 bits of it
SizeModulus == 2 ^ 16

Producers == 1 .. thread_number
Consumers == (thread_number + 1) .. (2 * thread_number)
Threads   == Producers \cup Consumers
NoThread  == 0

\* what the distribution of the TRandomizer can return
Values == 1 .. StorageSize
\* what an undefined read can return (Queue.front() on an empty queue, a
\* GetNext() racing with another): values in and out of the range
Garbage == 0 .. (StorageSize + 1)

VARIABLES
    Queue,      \* TIntegerQueue::Queue, head first
    QueueSkew,  \* number of pop() calls on an empty Queue the container kept
    QMutex,     \* owner of TIntegerQueue::Mutex, or NoThread
    Storage,    \* TStorage::Storage, indexed 1..StorageSize (slot v is Storage[v-1])
    Counter,    \* TStorage::Counter
    Start,      \* TStorage::Start, a reading of high_resolution_clock
    SMutex,     \* owner of TStorage::Mutex, or NoThread
    stop,       \* state of TStorage::StopSource
    pc,         \* position of every thread
    element,    \* the element a thread carries (argument or return value)
    waitRet,    \* what the wait of a thread's current queue call returned
    recorded,   \* whether a thread's current ProcessNext call stored its element
    mainpc,     \* position of main
    spawned,    \* number of jthreads main has constructed
    crashed,    \* the process was aborted
    track,      \* the history variables (pushed, popped, processed, late) are followed
    pushed,     \* the elements Queue.push() was called with, in mutex order
    popped,     \* the elements GetFromQueue returned, in mutex order
    stopCalls,  \* number of calls of StopSource.request_stop()
    oob,        \* ProcessNext has indexed Storage outside 0..StorageSize-1
    processed,  \* the elements ProcessNext was called with, in mutex order
    late        \* per thread, the queue calls it completed after the stop request

vars == << Queue, QueueSkew, QMutex, Storage, Counter, Start, SMutex, stop, pc,
           element, waitRet, recorded, mainpc, spawned, crashed, track, pushed,
           popped, stopCalls, oob, processed, late >>

\* TRandomData() = default
EmptySlot == [Number |-> 0, TimeToGenerate |-> 0, Order |-> 0]

\* Queue.size(), as the container reports it
QueueSize == (Len(Queue) - QueueSkew) % SizeModulus

\* predicate of the wait in SaveIntoQueue
NotFull == QueueSize < MaxQueueSize

\* predicate of the wait in GetFromQueue: !Queue.empty()
NotEmpty == QueueSize # 0

InitCommon ==
    /\ Queue = << >>
    /\ QueueSkew = 0
    /\ QMutex = NoThread
    /\ Storage = [v \in Values |-> EmptySlot]
    /\ Counter = 0
    /\ Start = 0
    /\ SMutex = NoThread
    /\ stop = FALSE
    /\ pc = [t \in Threads |-> "idle"]
    /\ element = [t \in Threads |-> 0]
    /\ waitRet = [t \in Threads |-> TRUE]
    /\ recorded = [t \in Threads |-> FALSE]
    /\ mainpc = "spawn"
    /\ spawned = 0
    /\ crashed = FALSE
    /\ pushed = << >>
    /\ popped = << >>
    /\ stopCalls = 0
    /\ oob = FALSE
    /\ processed = << >>
    /\ late = [t \in Threads |-> 0]

Init == InitCommon /\ track = FALSE

\* the same program, with the history of the queue followed
HistInit == InitCommon /\ track = TRUE

\* ---------------------------------------------------------------- main ---
\* one emplace_back of the loop: the producer of round i, then its consumer
NextSpawn == IF spawned % 2 = 0 THEN (spawned \div 2) + 1
                                ELSE thread_number + (spawned \div 2) + 1

MainSpawn ==
    /\ ~crashed
    /\ mainpc = "spawn"
    /\ spawned < 2 * thread_number
    /\ pc' = [pc EXCEPT ![NextSpawn] = "check"]
    /\ spawned' = spawned + 1
    /\ mainpc' = IF spawned + 1 = 2 * thread_number THEN "join" ELSE "spawn"
    /\ UNCHANGED << Queue, QueueSkew, QMutex, Storage, Counter, Start, SMutex, stop,
                    element, waitRet, recorded, crashed, track, pushed, popped,
                    stopCalls, oob, processed, late >>

\* (mutant) the threads are detached: the end of the block waits for none
AllJoined_Detached == TRUE

\* ~jthread joins: the destructors of both vectors return once the function of
\* every thread has returned
AllJoined == \A t \in Threads : pc[t] = "done"

\* the end of the block: the destructors of the jthreads join every thread
MainJoin ==
    /\ ~crashed
    /\ mainpc = "join"
    /\ AllJoined
    /\ mainpc' = "read"
    /\ UNCHANGED << Queue, QueueSkew, QMutex, Storage, Counter, Start, SMutex, stop,
                    pc, element, waitRet, recorded, spawned, crashed, track, pushed,
                    popped, stopCalls, oob, processed, late >>

\* the aggregation over storage.GetStorage()
MainRead ==
    /\ ~crashed
    /\ mainpc = "read"
    /\ mainpc' = "done"
    /\ UNCHANGED << Queue, QueueSkew, QMutex, Storage, Counter, Start, SMutex, stop,
                    pc, element, waitRet, recorded, spawned, crashed, track, pushed,
                    popped, stopCalls, oob, processed, late >>

\* ------------------------------------------------ condition variables ---
\* (mutant) QueueNotFullCond.notify_all() left out
NotifyNotFull_None(f) == f

\* QueueNotFullCond.notify_all(): every thread blocked on it goes for the mutex
NotifyNotFull(f) ==
    [t \in Threads |-> IF f[t] = "save_blocked" THEN "save_lock" ELSE f[t]]

\* QueueNotEmptyCond.notify_all()
NotifyNotEmpty(f) ==
    [t \in Threads |-> IF f[t] = "get_blocked" THEN "get_lock" ELSE f[t]]

\* StopSource.request_stop() runs the stop callbacks of the waits in progress
StopWake(f) == NotifyNotEmpty(NotifyNotFull(f))

\* a wait may return from blocking without a notification
SpuriousWake(t) ==
    /\ ~crashed
    /\ pc[t] \in {"save_blocked", "get_blocked"}
    /\ pc' = [pc EXCEPT ![t] = IF pc[t] = "save_blocked" THEN "save_lock"
                                                          ELSE "get_lock"]
    /\ UNCHANGED << Queue, QueueSkew, QMutex, Storage, Counter, Start, SMutex, stop,
                    element, waitRet, recorded, mainpc, spawned, crashed, track, pushed,
                    popped, stopCalls, oob, processed, late >>

\* ------------------------------------------------------------ producer ---
\* elements drawn and not yet handed to Queue.push()
InFlight == Cardinality({p \in Producers :
                pc[p] \in {"save_lock", "save_blocked", "save_push"}})

\* while (!storage.GetStopToken().stop_requested())
ProducerCheck(p) ==
    /\ ~crashed
    /\ pc[p] = "check"
    /\ pc' = [pc EXCEPT ![p] = IF stop THEN "done" ELSE "draw"]
    /\ UNCHANGED << Queue, QueueSkew, QMutex, Storage, Counter, Start, SMutex, stop,
                    element, waitRet, recorded, mainpc, spawned, crashed, track, pushed,
                    popped, stopCalls, oob, processed, late >>

\* the TRandomizer the lambda of producer p captured: every copy of producer_l
\* holds a reference to the one rzr of main
RandomizerOf(p) == 1

\* another producer is in GetNext() on the same TRandomizer: GetNext() takes no
\* lock, Gen and Dist are written by both calls
Racing(p) ==
    \E q \in Producers \ {p} : pc[q] = "draw" /\ RandomizerOf(q) = RandomizerOf(p)

\* what GetNext() can return: a value of [1, StorageSize], or, when the call
\* races with another one (a data race, undefined), any value
Draws(p) == IF Racing(p) THEN Garbage ELSE Values

\* rzr.GetNext(), the argument of SaveIntoQueue.  Where the history of the
\* queue is followed, the number of calls it follows is capped at MaxDraws.
ProducerDraw(p, v) ==
    /\ ~crashed
    /\ pc[p] = "draw"
    /\ track => Len(pushed) + InFlight < MaxDraws
    /\ element' = [element EXCEPT ![p] = v]
    /\ pc' = [pc EXCEPT ![p] = "save_lock"]
    /\ UNCHANGED << Queue, QueueSkew, QMutex, Storage, Counter, Start, SMutex, stop,
                    waitRet, recorded, mainpc, spawned, crashed, track, pushed, popped,
                    stopCalls, oob, processed, late >>

\* what QueueNotFullCond.wait(lock, st, pred) returns when it returns
SaveWaitResult == IF stop THEN NotFull ELSE TRUE

\* std::unique_lock<std::mutex> lock(Mutex) (or the re-lock when the wait wakes)
\* and one round of QueueNotFullCond.wait(lock, st, pred): the wait returns with
\* the mutex held, or it releases the mutex and blocks
SaveWait(p) ==
    /\ ~crashed
    /\ pc[p] = "save_lock"
    /\ QMutex = NoThread
    /\ IF stop \/ NotFull
         THEN /\ waitRet' = [waitRet EXCEPT ![p] = SaveWaitResult]
              /\ pc' = [pc EXCEPT ![p] = "save_push"]
              /\ QMutex' = p
         ELSE /\ pc' = [pc EXCEPT ![p] = "save_blocked"]
              /\ UNCHANGED << QMutex, waitRet >>
    /\ UNCHANGED << recorded, Queue, QueueSkew, Storage, Counter, Start, SMutex, stop,
                    element, mainpc, spawned, crashed, track, pushed, popped,
                    stopCalls, oob, processed, late >>

\* Queue.push(element); QueueNotEmptyCond.notify_all(); the lock is released.
\* The value the wait returned is not looked at.  On a container that pop() was
\* called on while empty the behaviour is undefined: the store lands outside the
\* live range of the container, or the process is aborted.
SavePush(p) ==
    /\ ~crashed
    /\ pc[p] = "save_push"
    /\ QMutex = p
    /\ \/ /\ \/ /\ QueueSkew = 0
                /\ Queue' = Append(Queue, element[p])
                /\ UNCHANGED QueueSkew
             \/ /\ QueueSkew > 0
                /\ QueueSkew' = QueueSkew - 1
                /\ UNCHANGED Queue
          /\ pushed' = IF track THEN Append(pushed, element[p]) ELSE pushed
          /\ pc' = [NotifyNotEmpty(pc) EXCEPT ![p] = "check"]
          /\ element' = [element EXCEPT ![p] = 0]
          /\ waitRet' = [waitRet EXCEPT ![p] = TRUE]
          /\ QMutex' = NoThread
          /\ late' = [late EXCEPT ![p] = @ + (IF track /\ stop THEN 1 ELSE 0)]
          /\ UNCHANGED crashed
       \/ /\ QueueSkew > 0
          /\ crashed' = TRUE
          /\ UNCHANGED << Queue, QueueSkew, pushed, pc, element, waitRet, QMutex, late >>
    /\ UNCHANGED << recorded, Storage, Counter, Start, SMutex, stop, mainpc,
                    spawned, track, popped, stopCalls, oob, processed >>

\* ------------------------------------------------------------ consumer ---
\* while (!storage.GetStopToken().stop_requested())
ConsumerCheck(c) ==
    /\ ~crashed
    /\ pc[c] = "check"
    /\ pc' = [pc EXCEPT ![c] = IF stop THEN "done" ELSE "get_lock"]
    /\ UNCHANGED << Queue, QueueSkew, QMutex, Storage, Counter, Start, SMutex, stop,
                    element, waitRet, recorded, mainpc, spawned, crashed, track, pushed,
                    popped, stopCalls, oob, processed, late >>

\* what QueueNotEmptyCond.wait(lock, st, pred) returns when it returns
GetWaitResult == IF stop THEN NotEmpty ELSE TRUE

\* std::unique_lock<std::mutex> lock(Mutex) (or the re-lock when the wait wakes)
\* and one round of QueueNotEmptyCond.wait(lock, st, pred)
GetWait(c) ==
    /\ ~crashed
    /\ pc[c] = "get_lock"
    /\ QMutex = NoThread
    /\ IF stop \/ NotEmpty
         THEN /\ waitRet' = [waitRet EXCEPT ![c] = GetWaitResult]
              /\ pc' = [pc EXCEPT ![c] = "get_pop"]
              /\ QMutex' = c
         ELSE /\ pc' = [pc EXCEPT ![c] = "get_blocked"]
              /\ UNCHANGED << QMutex, waitRet >>
    /\ UNCHANGED << recorded, Queue, QueueSkew, Storage, Counter, Start, SMutex, stop,
                    element, mainpc, spawned, crashed, track, pushed, popped,
                    stopCalls, oob, processed, late >>

\* (mutant) GetFromQueue returns with TIntegerQueue::Mutex still owned
GetUnlock_Kept(c) == c

\* the destructor of the unique_lock of GetFromQueue, run by its return: the
\* owner of TIntegerQueue::Mutex after it
GetUnlock(c) == NoThread

\* element = Queue.front(); Queue.pop(); QueueNotFullCond.notify_all(); return.
\* The value the wait returned is not looked at.  front() and pop() on an empty
\* container are undefined: the process is aborted, or front() reads a stale
\* value and pop() either leaves the container alone or moves its head past
\* its tail.
GetPop(c) ==
    /\ ~crashed
    /\ pc[c] = "get_pop"
    /\ QMutex = c
    /\ \/ /\ \/ /\ Queue # << >>
                /\ element' = [element EXCEPT ![c] = Head(Queue)]
                /\ Queue' = Tail(Queue)
                /\ popped' = IF track THEN Append(popped, Head(Queue)) ELSE popped
                /\ UNCHANGED QueueSkew
             \/ /\ Queue = << >>
                /\ \E g \in Garbage :
                      /\ element' = [element EXCEPT ![c] = g]
                      /\ popped' = IF track THEN Append(popped, g) ELSE popped
                /\ QueueSkew' \in {QueueSkew, QueueSkew + 1}
                /\ UNCHANGED Queue
          /\ pc' = [NotifyNotFull(pc) EXCEPT ![c] = "proc_lock"]
          /\ waitRet' = [waitRet EXCEPT ![c] = TRUE]
          /\ QMutex' = GetUnlock(c)
          /\ late' = [late EXCEPT ![c] = @ + (IF track /\ stop THEN 1 ELSE 0)]
          /\ UNCHANGED crashed
       \/ /\ Queue = << >>
          /\ crashed' = TRUE
          /\ UNCHANGED << Queue, QueueSkew, element, popped, pc, waitRet, QMutex, late >>
    /\ UNCHANGED << recorded, Storage, Counter, Start, SMutex, stop, mainpc,
                    spawned, track, pushed, stopCalls, oob, processed >>

\* -------------------------------------------------- TStorage::ProcessNext ---
\* (mutant) the range test of line 128 without its lower bound
InRange_NoLower(e) == e <= StorageSize

\* element > 0 && element <= StorageSize
InRange(e) == e > 0 /\ e <= StorageSize

\* (mutant) the duration rounded up to whole microseconds
Micros_RoundUp(d) == (d + TicksPerMicro - 1) \div TicksPerMicro

\* std::chrono::duration_cast<std::chrono::microseconds>(d).count() for a
\* duration d of the clock: the conversion truncates
Micros(d) == d \div TicksPerMicro

\* (mutant) the test of line 133 left out: every call stores
SlotIsFree_Always(e) == TRUE

\* Storage[index].Number == 0, for index = e - 1
SlotIsFree(e) == Storage[e].Number = 0

\* (mutant) Order = Counter++ in place of Order = ++Counter
NewSlot_PostIncrement(e, end) ==
    [Number |-> e, TimeToGenerate |-> Micros(end - Start), Order |-> Counter]

\* (mutant) Order = element in place of Order = ++Counter
NewSlot_OrderIsNumber(e, end) ==
    [Number |-> e, TimeToGenerate |-> Micros(end - Start), Order |-> e]

\* the slot ProcessNext writes for element e at clock reading end
NewSlot(e, end) ==
    [Number |-> e, TimeToGenerate |-> Micros(end - Start), Order |-> Counter + 1]

\* (mutant) the comparison of line 150 off by one
AllStored_OneEarly == Counter = StorageSize - 1

\* (mutant) the comparison of line 150 made against zero
AllStored_AnyStored == Counter > 0

\* (mutant) the stop test of lines 150-151 left out
AllStored_Never == FALSE

\* Counter == StorageSize
AllStored == Counter = StorageSize

\* std::scoped_lock<std::mutex> lock(Mutex), the range test and the block that
\* records an element not stored yet.  The clock is read by the constructor
\* and by this block only, so the reading before `end` is Start.  Storage[index]
\* with the index outside the vector is undefined; the range test keeps the
\* program from it, and oob records that it happened.
ProcRecord(c) ==
    /\ ~crashed
    /\ pc[c] = "proc_lock"
    /\ SMutex = NoThread
    /\ SMutex' = c
    /\ IF InRange(element[c]) /\ element[c] \in DOMAIN Storage
          /\ SlotIsFree(element[c])
         THEN \E end \in Start .. (Start + MaxTick) :
                /\ Storage' = [Storage EXCEPT ![element[c]] = NewSlot(element[c], end)]
                /\ Counter' = Counter + 1
                /\ Start' = end
                /\ recorded' = [recorded EXCEPT ![c] = TRUE]
         ELSE UNCHANGED << Storage, Counter, Start, recorded >>
    /\ oob' = (oob \/ (InRange(element[c]) /\ element[c] \notin DOMAIN Storage))
    /\ processed' = IF track THEN Append(processed, element[c]) ELSE processed
    /\ pc' = [pc EXCEPT ![c] = "proc_stop"]
    /\ UNCHANGED << Queue, QueueSkew, QMutex, stop, element, waitRet, mainpc,
                    spawned, crashed, track, pushed, popped, stopCalls, late >>

\* if (Counter == StorageSize) StopSource.request_stop(); the lock is released
ProcStop(c) ==
    /\ ~crashed
    /\ pc[c] = "proc_stop"
    /\ SMutex = c
    /\ IF InRange(element[c]) /\ AllStored
         THEN /\ stop' = TRUE
              /\ stopCalls' = stopCalls + 1
              /\ pc' = [(IF stop THEN pc ELSE StopWake(pc)) EXCEPT ![c] = "check"]
         ELSE /\ pc' = [pc EXCEPT ![c] = "check"]
              /\ UNCHANGED << stop, stopCalls >>
    /\ element' = [element EXCEPT ![c] = 0]
    /\ recorded' = [recorded EXCEPT ![c] = FALSE]
    /\ SMutex' = NoThread
    /\ UNCHANGED << Queue, QueueSkew, QMutex, Storage, Counter, Start, waitRet,
                    mainpc, spawned, crashed, track, pushed, popped, oob,
                    processed, late >>

\* ------------------------------------------------------- specification ---
ProducerStep(p) ==
    \/ ProducerCheck(p)
    \/ \E v \in Draws(p) : ProducerDraw(p, v)
    \/ SaveWait(p)
    \/ SavePush(p)

ConsumerStep(c) ==
    \/ ConsumerCheck(c)
    \/ GetWait(c)
    \/ GetPop(c)
    \/ ProcRecord(c)
    \/ ProcStop(c)

Next ==
    \/ MainSpawn
    \/ MainJoin
    \/ MainRead
    \/ \E p \in Producers : ProducerStep(p)
    \/ \E c \in Consumers : ConsumerStep(c)
    \/ \E t \in Threads : SpuriousWake(t)

Spec == Init /\ [][Next]_vars

HistSpec == HistInit /\ [][Next]_vars

\* scheduling: every thread that can take a step eventually takes one, and
\* every value of the range keeps being drawn
Fairness ==
    /\ WF_vars(MainSpawn)
    /\ WF_vars(MainJoin)
    /\ WF_vars(MainRead)
    /\ \A p \in Producers : WF_vars(ProducerStep(p))
    /\ \A c \in Consumers : WF_vars(ConsumerStep(c))
    /\ \A v \in Values : SF_vars(\E p \in Producers : ProducerDraw(p, v))

FairSpec == Init /\ [][Next]_vars /\ Fairness

\* ------------------------------------------- ProcessNext on its own ---
\* storage.ProcessNext(e) called by a consumer thread with any unsigned value:
\* the values of the range, 0 and StorageSize + 1
Feed(c, e) ==
    /\ ~crashed
    /\ pc[c] \in {"idle", "check"}
    /\ Len(processed) + Cardinality({d \in Consumers : pc[d] = "proc_lock"}) < MaxFeeds
    /\ element' = [element EXCEPT ![c] = e]
    /\ pc' = [pc EXCEPT ![c] = "proc_lock"]
    /\ UNCHANGED << Queue, QueueSkew, QMutex, Storage, Counter, Start, SMutex, stop,
                    waitRet, recorded, mainpc, spawned, crashed, track, pushed, popped,
                    stopCalls, oob, processed, late >>

TableInit == InitCommon /\ track = TRUE

TableNext ==
    \/ \E c \in Consumers : \E e \in Garbage : Feed(c, e)
    \/ \E c \in Consumers : ProcRecord(c)
    \/ \E c \in Consumers : ProcStop(c)

\* a TStorage and the consumer threads calling ProcessNext on it
TableSpec == TableInit /\ [][TableNext]_vars

\* ---------------------------------------------------------- properties ---
RECURSIVE SeqToBag(_)
SeqToBag(q) == IF q = << >> THEN EmptyBag
                            ELSE SetToBag({Head(q)}) (+) SeqToBag(Tail(q))

IsPrefix(a, b) == Len(a) <= Len(b) /\ SubSeq(b, 1, Len(a)) = a

\* C1: a SaveIntoQueue whose wait returned cancelled (stop requested, queue
\* still full) returns without enqueuing: the queue is the same after the call.
C1_CancelledSaveDoesNotEnqueue ==
    [][\A p \in Producers :
          (pc[p] = "save_push" /\ ~waitRet[p] /\ pc'[p] # "save_push")
              => (Queue' = Queue /\ QueueSkew' = QueueSkew)]_vars

\* C2: GetFromQueue never gets to Queue.front() / Queue.pop() with the queue
\* empty (so no value of such a call reaches ProcessNext).
C2_NoPopOnEmptyQueue ==
    \A c \in Consumers : pc[c] = "get_pop" => Queue # << >>

\* C3: the number of elements in the queue is between 0 and MaxQueueSize.
C3_QueueWithinCapacity ==
    Len(Queue) \in 0 .. MaxQueueSize

\* C4: the queue neither drops nor invents items: the multiset of the values
\* enqueued so far is the multiset returned so far plus the multiset still in
\* the queue.
C4_NoLossNoInvention ==
    SeqToBag(pushed) = SeqToBag(popped) (+) SeqToBag(Queue)

\* C5: the queue is FIFO: the values returned by GetFromQueue, in mutex order,
\* are a prefix of the values enqueued by SaveIntoQueue, in mutex order.
C5_Fifo ==
    IsPrefix(popped, pushed)

\* every thread has left its loop and main has joined them all
Terminated == mainpc \in {"read", "done"} /\ \A t \in Threads : pc[t] = "done"

\* C6: with fair draws and fair scheduling the run terminates: stop is
\* requested, every thread leaves its loop and is joined, and Counter is
\* StorageSize then.
C6_RunTerminates ==
    <>(stop /\ Terminated /\ Counter = StorageSize)

\* the thread is inside the wait of SaveIntoQueue or GetFromQueue, or between
\* that wait and the return of the call
InQueueCall(t) ==
    pc[t] \in {"save_lock", "save_blocked", "save_push",
               "get_lock", "get_blocked", "get_pop"}

\* C7: once stop is requested, a thread that is in the wait of SaveIntoQueue
\* or GetFromQueue eventually returns from that call.
C7_CancelledWaitReturns ==
    \A t \in Threads : (stop /\ InQueueCall(t)) ~> ~InQueueCall(t)

\* consumer c completes the body of a ProcessNext call in this step
ProcessNextActs(c) == pc[c] = "proc_lock" /\ pc'[c] = "proc_stop"

\* C8: for every value v at most one ProcessNext(v) call writes the slot of v
\* and increments Counter (a filled slot is never written again); every other
\* ProcessNext(v) call leaves Storage, Counter and Start unchanged.
C8_RecordedAtMostOnce ==
    [][/\ \A v \in Values : Storage[v].Number # 0 => Storage'[v] = Storage[v]
       /\ \A c \in Consumers : ProcessNextActs(c) =>
            IF InRange(element[c]) /\ Storage[element[c]].Number = 0
              THEN /\ Storage'[element[c]].Number = element[c]
                   /\ Counter' = Counter + 1
                   /\ \A w \in Values \ {element[c]} : Storage'[w] = Storage[w]
              ELSE UNCHANGED << Storage, Counter, Start >>
       /\ (\A c \in Consumers : ~ProcessNextActs(c))
            => UNCHANGED << Storage, Counter, Start >>]_vars

\* a ProcessNext(v) call has found v stored already while another consumer
\* carries the same v to ProcessNext
C8_Witness ==
    \E c1, c2 \in Consumers :
        /\ c1 # c2
        /\ pc[c1] = "proc_stop" /\ ~recorded[c1] /\ InRange(element[c1])
        /\ pc[c2] = "proc_lock" /\ element[c2] = element[c1]
        /\ Storage[element[c1]].Number = element[c1]

FilledSlots == {v \in Values : Storage[v].Number # 0}

\* C9: whenever the storage mutex is free, the Orders of the filled slots are
\* pairwise distinct and are exactly 1..Counter, Counter is the number of filled
\* slots and is at most StorageSize; at termination they are 1..StorageSize.
C9_OrdersArePermutation ==
    /\ SMutex = NoThread =>
          /\ {Storage[v].Order : v \in FilledSlots} = 1 .. Counter
          /\ \A v, w \in FilledSlots : Storage[v].Order = Storage[w].Order => v = w
          /\ Counter = Cardinality(FilledSlots)
          /\ Counter <= StorageSize
    /\ Terminated =>
          /\ FilledSlots = Values
          /\ {Storage[v].Order : v \in Values} = 1 .. StorageSize

\* the run has terminated with every slot filled
C9_Witness ==
    Terminated /\ SMutex = NoThread /\ Counter = StorageSize /\ StorageSize > 1

\* C10 as claimed: request_stop() is invoked by exactly one ProcessNext call.
C10_StopRequestedByOneCall ==
    /\ stopCalls <= 1
    /\ Terminated => stopCalls = 1

\* C10 as amended: the stop flag is set exactly once, by the ProcessNext call
\* that fills the last slot, and never becomes false again; request_stop() is
\* invoked again, without effect, by every later ProcessNext call whose element
\* is in 1..StorageSize (at most one per consumer thread), and by no other step.
C10_StopSetOnceByLastRecording ==
    /\ [](Terminated => stop)
    /\ [](stopCalls <= thread_number)
    /\ [][/\ stop => stop'
          /\ (~stop /\ stop') =>
                \E c \in Consumers :
                    /\ pc[c] = "proc_stop" /\ pc'[c] = "check"
                    /\ recorded[c]
                    /\ Counter = StorageSize
                    /\ stopCalls = 0
          /\ \A c \in Consumers :
                (stop /\ pc[c] = "proc_stop" /\ pc'[c] = "check") =>
                    stopCalls' = stopCalls + (IF InRange(element[c]) THEN 1 ELSE 0)
          /\ stopCalls' # stopCalls =>
                /\ stopCalls' = stopCalls + 1
                /\ stop'
                /\ \E c \in Consumers : pc[c] = "proc_stop" /\ pc'[c] = "check"]_vars

\* request_stop() has been invoked a second time, by a call that stored nothing
C10_Witness ==
    stop /\ stopCalls >= 2

\* a step of the ProcessNext call of consumer c
ProcessNextStep(c) == pc[c] \in {"proc_lock", "proc_stop"} /\ pc'[c] # pc[c]

\* C11: ProcessNext(element) with element = 0 or element > StorageSize changes
\* nothing: no step of the call changes a slot of Storage, Counter, Start or the
\* stop flag, and no slot outside the vector is accessed.
C11_OutOfRangeChangesNothing ==
    /\ [][\A c \in Consumers :
            (ProcessNextStep(c) /\ element[c] \notin Values)
               => UNCHANGED << Storage, Counter, Start, stop >>]_vars
    /\ [](~oob)

\* calls with 0 and with StorageSize + 1 have been made on a table that holds
\* an element and is not complete
C11_Witness ==
    /\ \E c \in Consumers : pc[c] = "proc_stop" /\ element[c] = StorageSize + 1
    /\ \E i \in 1 .. Len(processed) : processed[i] = 0
    /\ Counter > 0
    /\ ~stop

\* C12: each concurrent producer draws from its own TRandomizer: in no
\* reachable state are two producer threads executing GetNext() on the same
\* TRandomizer object at the same time.
C12_OwnRandomizer == \A p \in Producers : pc[p] = "draw" => ~Racing(p)

\* a thread inside SaveIntoQueue or GetFromQueue: acquiring the queue mutex,
\* blocked on one of its condition variables, or holding it
OnQueueMutex(t) ==
    pc[t] \in {"save_lock", "save_blocked", "save_push", "get_lock", "get_blocked",
               "get_pop"}

\* C13: no thread holds both locks at once: a thread that holds TStorage::Mutex
\* is not acquiring, waiting on or holding the queue mutex or its condition
\* variables, and a thread that holds the queue mutex is not acquiring
\* TStorage::Mutex.
C13_NeverBothLocks ==
    \A t \in Threads :
       /\ ~(QMutex = t /\ SMutex = t)
       /\ SMutex = t => ~OnQueueMutex(t)
       /\ QMutex = t => pc[t] # "proc_lock"

\* a consumer inside ProcessNext holds TStorage::Mutex while another thread
\* holds the queue mutex and a third call is about to take TStorage::Mutex
C13_Witness ==
    /\ SMutex \in Consumers
    /\ QMutex \in Threads
    /\ \E c \in Consumers : pc[c] = "proc_lock"

\* main is at, or past, the aggregation over storage.GetStorage()
ReadingStorage == mainpc \in {"read", "done"}

\* C14: the results table is read for aggregation only after every producer and
\* consumer thread has terminated and been joined: from the first read on, every
\* thread has returned and no step of ProcessNext, SaveIntoQueue or GetFromQueue
\* occurs.
C14_ReadAfterJoin ==
    /\ [](ReadingStorage => \A t \in Threads : pc[t] = "done")
    /\ [][ReadingStorage => UNCHANGED << pc, Queue, QueueSkew, QMutex, Storage,
                                         Counter, Start, SMutex, stop >>]_vars

\* main has read the complete table
C14_Witness == mainpc = "done" /\ Counter = StorageSize /\ stopCalls > 0

\* C15: whenever the storage mutex is free, the stop flag is set if and only if
\* Counter = StorageSize; stop is never requested while a slot of 1..N is empty,
\* and the ProcessNext call that fills the last empty slot requests stop before
\* it releases the mutex.
C15_StopIffComplete ==
    /\ [](SMutex = NoThread => (stop <=> Counter = StorageSize))
    /\ [](stop => FilledSlots = Values)
    /\ [](Counter = StorageSize <=> FilledSlots = Values)
    /\ [][\A c \in Consumers :
            (pc[c] = "proc_stop" /\ recorded[c] /\ Counter = StorageSize
               /\ SMutex = c /\ SMutex' # c)
               => (~stop /\ stop')]_vars

\* the call that filled the last slot has requested stop and released the mutex
C15_Witness ==
    /\ stop
    /\ SMutex = NoThread
    /\ Counter = StorageSize
    /\ stopCalls = 1
    /\ \A c \in Consumers : pc[c] # "proc_stop"

\* the in-range values ProcessNext was called with, in the order the calls
\* acquired the storage mutex
InRangeCalls == SelectSeq(processed, LAMBDA e : e \in Values)

\* the index of the first occurrence of v in q
FirstIndex(v, q) == CHOOSE i \in 1 .. Len(q) :
                       q[i] = v /\ \A j \in 1 .. (i - 1) : q[j] # v

\* the rank of the first occurrence of v among the distinct values of q
Rank(v, q) == Cardinality({q[j] : j \in 1 .. FirstIndex(v, q)})

\* the values that occur in q
Distinct(q) == {q[j] : j \in 1 .. Len(q)}

\* C16: for any sequence of in-range values handed to ProcessNext, in the order
\* the calls acquire the storage mutex, the Order stored for value v is the rank
\* of v's first occurrence among the distinct values of the sequence, Counter is
\* the number of distinct values, and stop is requested by the call that records
\* the last distinct value and not earlier; e.g. for N = 3 the sequence
\* [2,2,1,3] ends with Order(1) = 2, Order(2) = 1, Order(3) = 3, Counter = 3
\* and stop requested.
C16_OrderIsFirstOccurrenceRank ==
    /\ \A v \in Values :
          IF v \in Distinct(InRangeCalls)
            THEN Storage[v].Number = v /\ Storage[v].Order = Rank(v, InRangeCalls)
            ELSE Storage[v] = EmptySlot
    /\ Counter = Cardinality(Distinct(InRangeCalls))
    /\ stop => Distinct(InRangeCalls) = Values
    /\ (SMutex = NoThread /\ Distinct(InRangeCalls) = Values) => stop
    /\ (StorageSize = 3 /\ InRangeCalls = << 2, 2, 1, 3 >> /\ SMutex = NoThread)
          => /\ Storage[1].Order = 2 /\ Storage[2].Order = 1 /\ Storage[3].Order = 3
             /\ Counter = 3
             /\ stop
    /\ (StorageSize = 3 /\ InRangeCalls \in {<< 2, 2, 1 >>, << 2, 2 >>, << 2 >>})
          => ~stop

\* the largest value was handed over twice, then 1: the duplicate was a no-op
C16_Witness ==
    /\ Len(InRangeCalls) >= 3
    /\ InRangeCalls[1] = StorageSize
    /\ InRangeCalls[2] = StorageSize
    /\ InRangeCalls[3] = 1
    /\ Storage[StorageSize].Order = 1
    /\ Storage[1].Order = 2
    /\ SMutex = NoThread

\* the sum of TimeToGenerate over the slots of S
RECURSIVE SumTime(_)
SumTime(S) == IF S = {} THEN 0
              ELSE LET v == CHOOSE x \in S : TRUE
                   IN  Storage[v].TimeToGenerate + SumTime(S \ {v})

\* a ProcessNext call of consumer c takes the storage mutex and records
Recording(c) == ProcessNextActs(c) /\ recorded'[c]

\* C17 (as claimed): the TimeToGenerate stored by a recording call is the clock
\* at that call minus the clock at the previous recording (or at construction),
\* in microseconds, and Start is reset to the clock of the call; the sum of
\* TimeToGenerate over all filled slots equals the clock of the latest
\* recording minus the construction clock; calls that do not record do not move
\* Start.
C17_TimesSumToElapsed ==
    /\ [][\A c \in Consumers : Recording(c) =>
            /\ Start' >= Start
            /\ Storage'[element[c]].TimeToGenerate = Micros(Start' - Start)]_vars
    /\ [][(\A c \in Consumers : ~Recording(c)) => Start' = Start]_vars
    /\ [](SumTime(FilledSlots) = Micros(Start))

\* C17 (amended): the TimeToGenerate stored by a recording call is the whole
\* number of microseconds in the clock at that call minus the clock at the
\* previous recording (or at construction), the rest being dropped, and Start is
\* reset to the clock of the call; the sum of TimeToGenerate over the filled
\* slots is at most the time from construction to the latest recording and
\* falls short of it by less than one microsecond per filled slot; calls that
\* do not record do not move Start.
C17_TimesTruncated ==
    /\ [][\A c \in Consumers : Recording(c) =>
            LET t == Storage'[element[c]].TimeToGenerate
            IN  /\ Start' >= Start
                /\ t * TicksPerMicro <= Start' - Start
                /\ Start' - Start < (t + 1) * TicksPerMicro]_vars
    /\ [][(\A c \in Consumers : ~Recording(c)) => Start' = Start]_vars
    /\ [](/\ SumTime(FilledSlots) * TicksPerMicro <= Start
          /\ Start <= SumTime(FilledSlots) * TicksPerMicro
                        + Cardinality(FilledSlots) * (TicksPerMicro - 1))

\* two recordings, the first a whole microsecond after construction, the second
\* less than a microsecond after the first, and a later call that did not record
C17_Witness ==
    /\ Cardinality(FilledSlots) >= 2
    /\ SumTime(FilledSlots) > 0
    /\ SumTime(FilledSlots) * TicksPerMicro < Start
    /\ \E c \in Consumers : pc[c] = "proc_stop" /\ ~recorded[c]

\* C18: after stop has been requested each producer thread completes at most
\* one more enqueue and each consumer thread at most one more dequeue; the
\* queue length never exceeds MaxQueueSize while stop is not requested and
\* never exceeds MaxQueueSize plus the number of producers.
C18_BoundedAfterStop ==
    /\ \A t \in Threads : late[t] <= 1
    /\ ~stop => QueueSize <= MaxQueueSize
    /\ QueueSize <= MaxQueueSize + Cardinality(Producers)

\* C19: once stop has been requested the results table is frozen: no later
\* step, of a ProcessNext call or of anything else, changes a slot's Number,
\* Order or TimeToGenerate, nor Counter or Start.
C19_FrozenAfterStop == [][stop => UNCHANGED << Storage, Counter, Start >>]_vars

\* a ProcessNext call with an in-range element has taken the storage mutex
\* after the stop request
C19_Witness ==
    /\ stop
    /\ \E c \in Consumers :
          pc[c] = "proc_stop" /\ SMutex = c /\ element[c] \in Values /\ ~recorded[c]

\* C20: while stop has not been requested no wake-up is lost and the threads
\* cannot all be blocked: a producer is blocked in the wait of SaveIntoQueue
\* only while the queue is full and a consumer in the wait of GetFromQueue only
\* while it is empty, so they are never all blocked at once; and a completed
\* GetFromQueue leaves no producer blocked, a completed SaveIntoQueue no
\* consumer.
C20_NoLostWakeup ==
    /\ [](~stop => /\ \A p \in Producers : pc[p] = "save_blocked" => ~NotFull
                   /\ \A c \in Consumers : pc[c] = "get_blocked" => ~NotEmpty
                   /\ ~(/\ \A p \in Producers : pc[p] = "save_blocked"
                        /\ \A c \in Consumers : pc[c] = "get_blocked"))
    /\ [][\A c \in Consumers :
            (~stop /\ pc[c] = "get_pop" /\ pc'[c] = "proc_lock")
               => \A p \in Producers : pc'[p] # "save_blocked"]_vars
    /\ [][\A p \in Producers :
            (~stop /\ pc[p] = "save_push" /\ pc'[p] = "check")
               => \A c \in Consumers : pc'[c] # "get_blocked"]_vars

\* a producer is blocked on the full queue while a consumer is about to
\* complete GetFromQueue, and no stop has been requested
C20_Witness ==
    /\ ~stop
    /\ \E p \in Producers : pc[p] = "save_blocked"
    /\ \E c \in Consumers : pc[c] = "get_pop" /\ QMutex = c
    /\ ~NotFull

====
